---- MODULE Spec2Model ----
(***************************************************************************)
(* The docking layout tree of shaderlab (src/app/tabs.rs): NodeIndex,      *)
(* TreeNode and SplitTree.  The backing Vec<TreeNode> is the sequence      *)
(* `tree`; NodeIndex(i) addresses tree[i + 1].                             *)
(***************************************************************************)
EXTENDS Integers, Sequences, FiniteSets, TLC

VARIABLES
    tree,     \* SplitTree.tree, the backing Vec<TreeNode>
    last,     \* the last call: operation, arguments, whether it panicked, result
    nextTab   \* the id of the next Tab the caller creates

vars == <<tree, last, nextTab>>

----------------------------------------------------------------------------
(* Bounds of the model *)

\* Spec: split is only attempted on slots whose level() is at most this
MaxLevel == 2
\* SpecSplit: split is only attempted on slots whose level() is at most this
MaxSplitLevel == 3
\* SpecActive: split is only attempted on slots whose level() is at most this
MaxActiveLevel == 1
\* tabs ever created (tab ids are 1..MaxTabs, handed out in order)
MaxTabs == 3
\* longest tab list handed to split_tabs
MaxNewTabs == 1
\* a split is only attempted while the tree holds fewer split nodes than this
MaxSplits == 4

\* init_split_tree builds the root leaf from two tabs
RootTabs == 2

\* the split fractions the callers pass, in tenths
Fractions == {3, 7}

Splits == {"Left", "Right", "Above", "Below"}

----------------------------------------------------------------------------
(* Option<T> *)

None == <<>>
Some(x) == <<x>>

----------------------------------------------------------------------------
(* TreeNode *)

RectNOTHING == "NOTHING"

NodeNone == [kind |-> "None"]

NodeLeaf(tabs, active) ==
    [kind |-> "Leaf", rect |-> RectNOTHING, viewport |-> RectNOTHING,
     tabs |-> tabs, active |-> active]

NodeVertical(fraction) ==
    [kind |-> "Vertical", rect |-> RectNOTHING, fraction |-> fraction]

NodeHorizontal(fraction) ==
    [kind |-> "Horizontal", rect |-> RectNOTHING, fraction |-> fraction]

leaf(tab) == NodeLeaf(<<tab>>, 0)

leaf_with(tabs) == NodeLeaf(tabs, 0)

is_none(node) == node.kind = "None"

is_leaf(node) == node.kind = "Leaf"

IsSplitNode(node) == node.kind \in {"Vertical", "Horizontal"}

SplitNodes(t) == Cardinality({k \in 1..Len(t) : IsSplitNode(t[k])})

\* TreeNode::split: the slot becomes the split node, the old value is returned
TreeNodeSplit(node, split, fraction) ==
    LET src == IF split \in {"Left", "Right"}
               THEN NodeHorizontal(fraction)
               ELSE NodeVertical(fraction)
    IN  [self |-> src, old |-> node]

\* Vec::swap_remove(index): the last element takes the place of the removed
VecSwapRemove(s, index) ==
    [k \in 1..(Len(s) - 1) |-> IF k = index + 1 THEN s[Len(s)] ELSE s[k]]

\* Vec::remove(index): the elements after index shift left by one
VecRemove(s, index) ==
    [k \in 1..(Len(s) - 1) |-> IF k <= index THEN s[k] ELSE s[k + 1]]

\* append_tab that does nothing on a slot that is not a Leaf
TreeNodeAppendTabSilent(node, tab) ==
    IF is_leaf(node)
    THEN [panic |-> FALSE, self |-> [node EXCEPT !.tabs = Append(@, tab)]]
    ELSE [panic |-> FALSE, self |-> node]

\* TreeNode::append_tab: push on a Leaf, unreachable!() otherwise
TreeNodeAppendTab(node, tab) ==
    IF is_leaf(node)
    THEN [panic |-> FALSE, self |-> [node EXCEPT !.tabs = Append(@, tab)]]
    ELSE [panic |-> TRUE, self |-> node]

\* TreeNode::remove_tab: Some(tabs.remove(index)) on a Leaf (Vec::remove
\* panics when index >= len), None otherwise; active is not touched
TreeNodeRemoveTab(node, index) ==
    IF is_leaf(node)
    THEN IF index >= Len(node.tabs)
         THEN [panic |-> TRUE, self |-> node, val |-> None]
         ELSE [panic |-> FALSE,
               self |-> [node EXCEPT !.tabs = VecRemove(@, index)],
               val |-> Some(node.tabs[index + 1])]
    ELSE [panic |-> FALSE, self |-> node, val |-> None]

----------------------------------------------------------------------------
(* NodeIndex *)

root == 0

left(i) == i * 2 + 1

right(i) == i * 2 + 2

\* parent with the halving of a 1-based heap
parent_half(i) == IF i > 0 THEN Some(i \div 2) ELSE None

parent(i) == IF i > 0 THEN Some((i - 1) \div 2) ELSE None

\* number of significant bits of n: usize::BITS - n.leading_zeros()
RECURSIVE BitLength(_)
BitLength(n) == IF n = 0 THEN 0 ELSE 1 + BitLength(n \div 2)

\* level without the + 1: the bit length of the index itself
level_of_index(i) == BitLength(i)

level(i) == BitLength(i + 1)

\* is_left with the parity test of is_right
is_left_even(i) == i % 2 = 0

is_left(i) == i % 2 /= 0

is_right(i) == i % 2 = 0

\* 1 << n
RECURSIVE Shl1(_)
Shl1(n) == IF n = 0 THEN 1 ELSE 2 * Shl1(n - 1)

\* the half-open range s..e as the sequence of its elements
Range(s, e) == [k \in 1..(IF e > s THEN e - s ELSE 0) |-> s + k - 1]

\* children_at whose range starts and ends one slot late
children_at_late(i, lvl) ==
    LET base == Shl1(lvl)
        s == (i + 1) * base
        e == (i + 2) * base
    IN  Range(s, e)

children_at(i, lvl) ==
    LET base == Shl1(lvl)
        s == (i + 1) * base - 1
        e == (i + 2) * base - 1
    IN  Range(s, e)

children_left(i, lvl) ==
    LET base == Shl1(lvl)
        s == (i + 1) * base - 1
        e == (i + 1) * base + (base \div 2) - 1
    IN  Range(s, e)

\* children_right whose start is one slot too far
children_right_late(i, lvl) ==
    LET base == Shl1(lvl)
        s == (i + 1) * base + (base \div 2)
        e == (i + 2) * base - 1
    IN  Range(s, e)

children_right(i, lvl) ==
    LET base == Shl1(lvl)
        s == (i + 1) * base + (base \div 2) - 1
        e == (i + 2) * base - 1
    IN  Range(s, e)

----------------------------------------------------------------------------
(* SplitTree *)

\* Index / IndexMut: &self.tree[index.0]
At(t, i) == t[i + 1]

InBounds(t, i) == i >= 0 /\ i < Len(t)

Store(t, i, node) == [t EXCEPT ![i + 1] = node]

new(rootNode) == <<rootNode>>

\* Vec::resize_with(n, || TreeNode::None): truncates or pads with None
ResizeWith(t, n) ==
    IF n <= Len(t)
    THEN SubSeq(t, 1, n)
    ELSE t \o [k \in 1..(n - Len(t)) |-> NodeNone]

fix_len_parent(t, p) ==
    LET new_len == Shl1(level(p) + 1)
    IN  ResizeWith(t, new_len + 1)

\* SplitIndex with the two request classes exchanged
SplitIndexSwapped(p, split) ==
    IF split \in {"Left", "Below"}
    THEN <<right(p), left(p)>>
    ELSE <<left(p), right(p)>>

\* the pair split returns: [index of old content, index of new content]
SplitIndex(p, split) ==
    IF split \in {"Right", "Above"}
    THEN <<right(p), left(p)>>
    ELSE <<left(p), right(p)>>

\* SplitTree::split.  The slot is replaced before the assert looks at what it
\* held, so a failed assert leaves the replaced slot behind.
split(t, p, s, fraction, newNode) ==
    IF ~InBounds(t, p)
    THEN [panic |-> TRUE, tree |-> t, index |-> <<>>]
    ELSE LET r == TreeNodeSplit(At(t, p), s, fraction)
             t1 == Store(t, p, r.self)
         IN  IF ~is_leaf(r.old)
             THEN [panic |-> TRUE, tree |-> t1, index |-> <<>>]
             ELSE LET t2 == fix_len_parent(t1, p)
                      index == SplitIndex(p, s)
                      t3 == Store(t2, index[1], r.old)
                      t4 == Store(t3, index[2], newNode)
                  IN  [panic |-> FALSE, tree |-> t4, index |-> index]

split_tabs(t, p, s, fraction, tabs) ==
    split(t, p, s, fraction, leaf_with(tabs))

\* the first slot, in array order, that is a Leaf with no tabs
IsEmptyLeaf(node) == is_leaf(node) /\ Len(node.tabs) = 0

\* the scan without the emptiness test: the first Leaf slot in array order
FindFirstLeaf(t) ==
    LET found == {i \in 0..(Len(t) - 1) : is_leaf(At(t, i))}
    IN  IF found = {}
        THEN None
        ELSE Some(CHOOSE i \in found : \A j \in found : i <= j)

FindEmptyLeaf(t) ==
    LET found == {i \in 0..(Len(t) - 1) : IsEmptyLeaf(At(t, i))}
    IN  IF found = {}
        THEN None
        ELSE Some(CHOOSE i \in found : \A j \in found : i <= j)

\* Promote that moves the sibling slot itself and no deeper level
PromoteRootOnly(t, p, fromRight, lvl, k) ==
    LET dst == children_at(p, 0)
        src == IF fromRight
               THEN children_right(p, 1)
               ELSE children_left(p, 1)
    IN  IF src[1] >= Len(t)
        THEN t
        ELSE Store(Store(t, src[1], NodeNone), dst[1], At(t, src[1]))

\* the promotion loop of remove_empty_leaf: at each level the zipped
\* (dst, src) pairs are moved in order, and the first src past the end of the
\* sequence leaves both loops
RECURSIVE Promote(_, _, _, _, _)
Promote(t, p, fromRight, lvl, k) ==
    LET dst == children_at(p, lvl)
        src == IF fromRight
               THEN children_right(p, lvl + 1)
               ELSE children_left(p, lvl + 1)
        n == IF Len(dst) < Len(src) THEN Len(dst) ELSE Len(src)
    IN  IF k > n
        THEN Promote(t, p, fromRight, lvl + 1, 1)
        ELSE IF src[k] >= Len(t)
             THEN t
             ELSE LET moved == At(t, src[k])
                      t1 == Store(t, src[k], NodeNone)
                      t2 == Store(t1, dst[k], moved)
                  IN  Promote(t2, p, fromRight, lvl, k + 1)

\* remove_empty_leaf without `self[node] = TreeNode::None`
remove_empty_leaf_keeps_node(t) ==
    LET node == FindEmptyLeaf(t)
    IN  IF node = None
        THEN [panic |-> FALSE, tree |-> t, node |-> node]
        ELSE LET n == node[1]
                 par == parent(n)
             IN  IF par = None
                 THEN [panic |-> TRUE, tree |-> t, node |-> node]
                 ELSE LET p == par[1]
                          t1 == Store(t, p, NodeNone)
                      IN  [panic |-> FALSE,
                           tree |-> Promote(t1, p, is_left(n), 0, 1),
                           node |-> node]

\* SplitTree::remove_empty_leaf; `node` is the empty leaf the scan found
remove_empty_leaf(t) ==
    LET node == FindEmptyLeaf(t)
    IN  IF node = None
        THEN [panic |-> FALSE, tree |-> t, node |-> node]
        ELSE LET n == node[1]
                 par == parent(n)
             IN  IF par = None
                 THEN [panic |-> TRUE, tree |-> t, node |-> node]
                 ELSE LET p == par[1]
                          t1 == Store(t, p, NodeNone)
                          t2 == Store(t1, n, NodeNone)
                      IN  [panic |-> FALSE,
                           tree |-> Promote(t2, p, is_left(n), 0, 1),
                           node |-> node]

----------------------------------------------------------------------------
(* The program: a SplitTree built by new(root_leaf) and driven by calls *)

Call(op, arg, panic, val) ==
    [op |-> op, arg |-> arg, panic |-> panic, val |-> val]

\* a panic ends the program: no call follows it
halted == last.panic

\* n fresh tabs, in order of creation
FreshTabs(n) == [k \in 1..n |-> nextTab + k - 1]

Init ==
    /\ tree = new(leaf_with([k \in 1..RootTabs |-> k]))
    /\ last = Call("new", <<>>, FALSE, <<>>)
    /\ nextTab = RootTabs + 1

\* tree.split(parent, split, fraction, newNode), newNode built from n fresh
\* tabs; split_tabs forwards to split, which is the call recorded
DoSplit(viaTabs, p, s, f, newNode, n) ==
    /\ ~halted
    /\ nextTab + n - 1 <= MaxTabs
    /\ SplitNodes(tree) < MaxSplits
    /\ LET r == IF viaTabs
                THEN split_tabs(tree, p, s, f, newNode.tabs)
                ELSE split(tree, p, s, f, newNode)
       IN  /\ tree' = r.tree
           /\ last' = Call("split",
                           [parent |-> p, split |-> s, fraction |-> f,
                            new |-> newNode],
                           r.panic, r.index)
    /\ nextTab' = nextTab + n

\* split(parent, split, fraction, TreeNode::leaf(tab))
Split(p, s, f) ==
    /\ level(p) <= MaxLevel
    /\ DoSplit(FALSE, p, s, f, leaf(nextTab), 1)

\* split_tabs(parent, split, fraction, tabs) with n fresh tabs
SplitTabs(p, s, f, n) ==
    /\ level(p) <= MaxLevel
    /\ DoSplit(TRUE, p, s, f, leaf_with(FreshTabs(n)), n)

\* tree[index].append_tab(tab)
AppendTab(i) ==
    /\ ~halted
    /\ nextTab <= MaxTabs
    /\ IF ~InBounds(tree, i)
       THEN /\ tree' = tree
            /\ last' = Call("append_tab", [index |-> i, tab |-> nextTab],
                            TRUE, <<>>)
       ELSE LET r == TreeNodeAppendTab(At(tree, i), nextTab)
            IN  /\ tree' = Store(tree, i, r.self)
                /\ last' = Call("append_tab", [index |-> i, tab |-> nextTab],
                                r.panic, <<>>)
    /\ nextTab' = nextTab + 1

\* tree[index].remove_tab(tabIndex)
RemoveTab(i, tabIndex) ==
    /\ ~halted
    /\ IF ~InBounds(tree, i)
       THEN /\ tree' = tree
            /\ last' = Call("remove_tab", [index |-> i, tab |-> tabIndex],
                            TRUE, None)
       ELSE LET r == TreeNodeRemoveTab(At(tree, i), tabIndex)
            IN  /\ tree' = Store(tree, i, r.self)
                /\ last' = Call("remove_tab", [index |-> i, tab |-> tabIndex],
                                r.panic, r.val)
    /\ UNCHANGED nextTab

\* tree.remove_empty_leaf(); the call's record also keeps the local `node`
RemoveEmptyLeaf ==
    /\ ~halted
    /\ LET r == remove_empty_leaf(tree)
       IN  /\ tree' = r.tree
           /\ last' = [op |-> "remove_empty_leaf", arg |-> <<>>,
                       panic |-> r.panic, val |-> <<>>, node |-> r.node]
    /\ UNCHANGED nextTab

----------------------------------------------------------------------------
(* find_active::<T>: the panel types of the tabs.  init_split_tree gives   *)
(* the first tab a SceneTab and the second a PlaceholderTab; the tabs made *)
(* later alternate between the two, so a type can occur in several leaves. *)

TabInnerTypes == {"SceneTab", "PlaceholderTab"}

InnerType(tab) == IF tab % 2 = 1 THEN "SceneTab" ELSE "PlaceholderTab"

\* slice::get_mut(index): None when index is past the end
GetMut(s, index) == IF index < Len(s) THEN Some(s[index + 1]) ELSE None

\* tab.inner.downcast_mut::<T>()
DowncastMut(tab, T) == IF InnerType(tab) = T THEN Some(tab) ELSE None

\* the closure with tabs.first() in place of tabs.get_mut(*active)
FindActiveClosureFirstTab(node, T) ==
    IF is_leaf(node)
    THEN LET tab == GetMut(node.tabs, 0)
             inner == IF tab = None THEN None ELSE DowncastMut(tab[1], T)
         IN  IF inner = None
             THEN None
             ELSE Some([viewport |-> node.viewport, tab |-> inner[1]])
    ELSE None

\* the closure find_active hands to find_map
FindActiveClosure(node, T) ==
    IF is_leaf(node)
    THEN LET tab == GetMut(node.tabs, node.active)
             inner == IF tab = None THEN None ELSE DowncastMut(tab[1], T)
         IN  IF inner = None
             THEN None
             ELSE Some([viewport |-> node.viewport, tab |-> inner[1]])
    ELSE None

\* iter_mut().find_map(..) from slot i on: the first Some the closure gives
RECURSIVE FindMapFrom(_, _, _)
FindMapFrom(t, i, T) ==
    IF i >= Len(t)
    THEN None
    ELSE LET r == FindActiveClosure(At(t, i), T)
         IN  IF r /= None THEN r ELSE FindMapFrom(t, i + 1, T)

find_active(t, T) == FindMapFrom(t, 0, T)

\* tree.find_active::<T>(); the sequence is only read
FindActive(T) ==
    /\ ~halted
    /\ tree' = tree
    /\ last' = Call("find_active", T, FALSE, find_active(tree, T))
    /\ UNCHANGED nextTab

\* the indices a caller may pass: every slot, and one past the end
Indices == 0..Len(tree)

\* the tab positions a caller may pass for slot i: every tab, and one past
TabIndices(i) ==
    IF InBounds(tree, i) /\ is_leaf(At(tree, i))
    THEN 0..Len(At(tree, i).tabs)
    ELSE {0}

Next ==
    \/ \E p \in Indices, s \in Splits, f \in Fractions : Split(p, s, f)
    \/ \E p \in Indices, s \in Splits, f \in Fractions, n \in 0..MaxNewTabs :
          SplitTabs(p, s, f, n)
    \/ \E i \in Indices : AppendTab(i)
    \/ \E i \in Indices : \E k \in TabIndices(i) : RemoveTab(i, k)
    \/ RemoveEmptyLeaf

Spec == Init /\ [][Next]_vars

----------------------------------------------------------------------------
(* The tab bar: selecting a tab of a leaf makes it the active one.  The     *)
(* handler is outside src/app/tabs.rs; it stores an index of an existing    *)
(* tab in the public field `active`.                                        *)

SetActive(i, k) ==
    /\ ~halted
    /\ InBounds(tree, i)
    /\ is_leaf(At(tree, i))
    /\ k < Len(At(tree, i).tabs)
    /\ k /= At(tree, i).active
    /\ tree' = Store(tree, i, [At(tree, i) EXCEPT !.active = k])
    /\ last' = Call("set_active", [index |-> i, tab |-> k], FALSE, <<>>)
    /\ UNCHANGED nextTab

SplitTabsShallow(p, s, f, n) ==
    /\ level(p) <= MaxActiveLevel
    /\ DoSplit(TRUE, p, s, f, leaf_with(FreshTabs(n)), n)

NextActive ==
    \/ \E p \in Indices, s \in Splits, f \in Fractions, n \in 0..MaxNewTabs :
          SplitTabsShallow(p, s, f, n)
    \/ \E i \in Indices : AppendTab(i)
    \/ \E i \in Indices : \E k \in TabIndices(i) : RemoveTab(i, k)
    \/ RemoveEmptyLeaf
    \/ \E i \in Indices : \E k \in TabIndices(i) : SetActive(i, k)
    \/ \E T \in TabInnerTypes : FindActive(T)

SpecActive == Init /\ [][NextActive]_vars

----------------------------------------------------------------------------
(* Splits only, each on a Leaf slot, down to a deeper level *)

LeafIndices == {i \in 0..(Len(tree) - 1) : is_leaf(At(tree, i))}

SplitLeaf(p, s, f) ==
    /\ level(p) <= MaxSplitLevel
    /\ DoSplit(FALSE, p, s, f, leaf(nextTab), 1)

SplitTabsLeaf(p, s, f, n) ==
    /\ level(p) <= MaxSplitLevel
    /\ DoSplit(TRUE, p, s, f, leaf_with(FreshTabs(n)), n)

NextSplit ==
    \/ \E p \in LeafIndices, s \in Splits, f \in Fractions : SplitLeaf(p, s, f)
    \/ \E p \in LeafIndices, s \in Splits, f \in Fractions,
          n \in 0..MaxNewTabs : SplitTabsLeaf(p, s, f, n)

SpecSplit == Init /\ [][NextSplit]_vars

----------------------------------------------------------------------------
(* NodeIndex on its own: the index arithmetic applied to every index and   *)
(* relative depth of a bounded range                                       *)

\* the largest index the arithmetic is applied to
MaxIndex == 14
\* the largest relative depth handed to children_at / _left / _right
MaxDepth == 3

ChildArg(i, lvl) == [index |-> i, level |-> lvl]

Level(i) ==
    /\ last' = Call("level", i, FALSE, level(i))
    /\ UNCHANGED <<tree, nextTab>>

Left(i) ==
    /\ last' = Call("left", i, FALSE, left(i))
    /\ UNCHANGED <<tree, nextTab>>

Right(i) ==
    /\ last' = Call("right", i, FALSE, right(i))
    /\ UNCHANGED <<tree, nextTab>>

Parent(i) ==
    /\ last' = Call("parent", i, FALSE, parent(i))
    /\ UNCHANGED <<tree, nextTab>>

IsLeft(i) ==
    /\ last' = Call("is_left", i, FALSE, is_left(i))
    /\ UNCHANGED <<tree, nextTab>>

IsRight(i) ==
    /\ last' = Call("is_right", i, FALSE, is_right(i))
    /\ UNCHANGED <<tree, nextTab>>

ChildrenAt(i, lvl) ==
    /\ last' = Call("children_at", ChildArg(i, lvl), FALSE,
                    children_at(i, lvl))
    /\ UNCHANGED <<tree, nextTab>>

ChildrenLeft(i, lvl) ==
    /\ last' = Call("children_left", ChildArg(i, lvl), FALSE,
                    children_left(i, lvl))
    /\ UNCHANGED <<tree, nextTab>>

ChildrenRight(i, lvl) ==
    /\ last' = Call("children_right", ChildArg(i, lvl), FALSE,
                    children_right(i, lvl))
    /\ UNCHANGED <<tree, nextTab>>

NextIndex ==
    \/ \E i \in 0..MaxIndex : Level(i)
    \/ \E i \in 0..MaxIndex : Left(i)
    \/ \E i \in 0..MaxIndex : Right(i)
    \/ \E i \in 0..MaxIndex : Parent(i)
    \/ \E i \in 0..MaxIndex : IsLeft(i)
    \/ \E i \in 0..MaxIndex : IsRight(i)
    \/ \E i \in 0..MaxIndex, lvl \in 0..MaxDepth : ChildrenAt(i, lvl)
    \/ \E i \in 0..MaxIndex, lvl \in 0..MaxDepth : ChildrenLeft(i, lvl)
    \/ \E i \in 0..MaxIndex, lvl \in 0..MaxDepth : ChildrenRight(i, lvl)

SpecIndex == Init /\ [][NextIndex]_vars

----------------------------------------------------------------------------

(* remove_empty_leaf step by step: the promotion loop as the code runs it, *)
(* one pass of the inner `for` per step.  While the loop runs, `last` is   *)
(* the call in progress, with the locals parent, level and the position k  *)
(* in the zipped (dst, src) ranges; fromRight says that node.is_left(), so *)
(* that src is children_right.                                             *)

\* SpecLoop: split_tabs is only attempted on slots whose level() is at most
\* this
MaxLoopLevel == 2

InLoop == last.op = "promote"

LoopState(p, fromRight, lvl, k, node) ==
    [op |-> "promote",
     arg |-> [parent |-> p, fromRight |-> fromRight, level |-> lvl, k |-> k],
     panic |-> FALSE, val |-> <<>>, node |-> node]

\* the call has returned (or panicked) with the local `level` at lvl
LoopDone(panic, lvl, node) ==
    [op |-> "remove_empty_leaf", arg |-> <<>>, panic |-> panic,
     val |-> <<>>, node |-> node, level |-> lvl]

\* the break test with > in place of >=
PastEndStrict(t, src) == src > Len(t)

\* if src >= self.tree.len() { break }
PastEnd(t, src) == src >= Len(t)

\* the scan, parent().unwrap(), and the two stores before the loop
CollapseBegin ==
    /\ ~halted
    /\ ~InLoop
    /\ LET node == FindEmptyLeaf(tree)
       IN  IF node = None
           THEN /\ tree' = tree
                /\ last' = LoopDone(FALSE, 0, node)
           ELSE LET n == node[1]
                    par == parent(n)
                IN  IF par = None
                    THEN /\ tree' = tree
                         /\ last' = LoopDone(TRUE, 0, node)
                    ELSE /\ tree' = Store(Store(tree, par[1], NodeNone),
                                          n, NodeNone)
                         /\ last' = LoopState(par[1], is_left(n), 0, 1, node)
    /\ UNCHANGED nextTab

\* one pass of `for (dst, src) in dst.zip(src)`, or `level += 1` when the
\* zipped ranges are used up; indexing outside the sequence panics
PromoteStep ==
    /\ InLoop
    /\ LET a == last.arg
           dst == children_at(a.parent, a.level)
           src == IF a.fromRight
                  THEN children_right(a.parent, a.level + 1)
                  ELSE children_left(a.parent, a.level + 1)
           n == IF Len(dst) < Len(src) THEN Len(dst) ELSE Len(src)
       IN  IF a.k > n
           THEN /\ tree' = tree
                /\ last' = LoopState(a.parent, a.fromRight, a.level + 1, 1,
                                     last.node)
           ELSE IF PastEnd(tree, src[a.k])
           THEN /\ tree' = tree
                /\ last' = LoopDone(FALSE, a.level, last.node)
           ELSE IF ~InBounds(tree, src[a.k]) \/ ~InBounds(tree, dst[a.k])
           THEN /\ tree' = tree
                /\ last' = LoopDone(TRUE, a.level, last.node)
           ELSE /\ tree' = Store(Store(tree, src[a.k], NodeNone), dst[a.k],
                                 At(tree, src[a.k]))
                /\ last' = LoopState(a.parent, a.fromRight, a.level,
                                     a.k + 1, last.node)
    /\ UNCHANGED nextTab

SplitTabsIdle(p, s, f, n) ==
    /\ ~InLoop
    /\ level(p) <= MaxLoopLevel
    /\ DoSplit(TRUE, p, s, f, leaf_with(FreshTabs(n)), n)

RemoveTabIdle(i, k) ==
    /\ ~InLoop
    /\ RemoveTab(i, k)

NextLoop ==
    \/ \E p \in LeafIndices, s \in Splits, f \in Fractions,
          n \in 0..MaxNewTabs : SplitTabsIdle(p, s, f, n)
    \/ \E i \in LeafIndices : \E k \in 0..(Len(At(tree, i).tabs) - 1) :
          RemoveTabIdle(i, k)
    \/ CollapseBegin
    \/ PromoteStep

\* the loop is straight-line code of one call: once entered it keeps running
SpecLoop == Init /\ [][NextLoop]_vars /\ WF_vars(PromoteStep)

----------------------------------------------------------------------------

(* Notions the properties are stated with *)

\* slot i is reached from index 0 by following 2i+1 / 2i+2 through split nodes
RECURSIVE Reachable(_, _)
Reachable(t, i) ==
    \/ i = root /\ InBounds(t, i)
    \/ /\ i > 0
       /\ InBounds(t, i)
       /\ IsSplitNode(At(t, (i - 1) \div 2))
       /\ Reachable(t, (i - 1) \div 2)

\* the places (slot, position) of the tree that hold the tab
Holders(t, tab) ==
    {<<i, k>> \in (0..(Len(t) - 1)) \X (1..MaxTabs) :
        /\ is_leaf(At(t, i))
        /\ k <= Len(At(t, i).tabs)
        /\ At(t, i).tabs[k] = tab}

\* the tabs handed to the tree so far
Handed == 1..(nextTab - 1)

----------------------------------------------------------------------------
(* C1: after any sequence of split / split_tabs calls on Leaf slots, every  *)
(* tab handed to the tree is held by exactly one Leaf slot, and that slot   *)
(* is reachable from index 0 through split nodes.                           *)
C1_NoOrphanedContent ==
    \A tab \in Handed :
        /\ Cardinality(Holders(tree, tab)) = 1
        /\ \A h \in Holders(tree, tab) : Reachable(tree, h[1])

(* C2: no call makes the backing sequence shorter. *)
C2_LengthNeverDecreases == [][Len(tree') >= Len(tree)]_vars

(* C6: every Vertical / Horizontal slot has both child indices inside the   *)
(* backing sequence, and both child slots are not None.                     *)
C6_SplitNodesHaveChildren ==
    \A i \in 0..(Len(tree) - 1) :
        IsSplitNode(At(tree, i)) =>
            /\ InBounds(tree, left(i)) /\ ~is_none(At(tree, left(i)))
            /\ InBounds(tree, right(i)) /\ ~is_none(At(tree, right(i)))

----------------------------------------------------------------------------
(* C3: split(parent, request, fraction, new) on a Leaf slot completes; the  *)
(* slot at parent becomes Horizontal for Left/Right and Vertical for        *)
(* Above/Below with the given fraction; the displaced leaf, unchanged, is   *)
(* at parent.right() for Right/Above and at parent.left() for Left/Below;   *)
(* the new content is at the other child; the returned pair is [index of    *)
(* old content, index of new content], and parent() of both is parent.      *)

IsSplitCall(c) == c.op = "split"

SplitPostcondition(before, after, c) ==
    LET p == c.arg.parent
        s == c.arg.split
        oldIdx == IF s \in {"Right", "Above"} THEN p * 2 + 2 ELSE p * 2 + 1
        newIdx == IF s \in {"Right", "Above"} THEN p * 2 + 1 ELSE p * 2 + 2
    IN  /\ ~c.panic
        /\ At(after, p).kind =
               (IF s \in {"Left", "Right"} THEN "Horizontal" ELSE "Vertical")
        /\ At(after, p).fraction = c.arg.fraction
        /\ InBounds(after, oldIdx) /\ At(after, oldIdx) = At(before, p)
        /\ InBounds(after, newIdx) /\ At(after, newIdx) = c.arg.new
        /\ c.val = <<oldIdx, newIdx>>
        /\ parent(c.val[1]) = Some(p)
        /\ parent(c.val[2]) = Some(p)

C3_SplitPostcondition ==
    [][(/\ IsSplitCall(last')
        /\ InBounds(tree, last'.arg.parent)
        /\ is_leaf(At(tree, last'.arg.parent)))
       => SplitPostcondition(tree, tree', last')]_vars

\* a Right split below the root has displaced a leaf of two tabs to the right
C3_Witness ==
    /\ IsSplitCall(last)
    /\ ~last.panic
    /\ last.arg.split = "Right"
    /\ last.arg.parent > 0
    /\ last.val = <<right(last.arg.parent), left(last.arg.parent)>>
    /\ Len(At(tree, last.val[1]).tabs) = 2
    /\ At(tree, last.val[2]) = last.arg.new

----------------------------------------------------------------------------
(* The collapse step: the empty leaf it finds, its parent and its sibling *)

IsCollapse(c) == c.op = "remove_empty_leaf"

EmptyLeaves(t) == {i \in 0..(Len(t) - 1) : IsEmptyLeaf(At(t, i))}

FirstEmpty(t) == CHOOSE i \in EmptyLeaves(t) : \A j \in EmptyLeaves(t) : i <= j

ParentOf(i) == (i - 1) \div 2

SiblingOf(i) == IF i = 2 * ParentOf(i) + 1 THEN i + 1 ELSE i - 1

\* j is p or a descendant of p
RECURSIVE InSubtree(_, _)
InSubtree(j, p) ==
    IF j = p THEN TRUE
    ELSE IF j < p \/ j = 0 THEN FALSE
    ELSE InSubtree(ParentOf(j), p)

\* the slot reached from s by the path of left/right steps that leads from p
\* to its descendant j
RECURSIVE Rebase(_, _, _)
Rebase(j, p, s) ==
    IF j = p THEN s
    ELSE 2 * Rebase(ParentOf(j), p, s) + (IF j % 2 = 1 THEN 1 ELSE 2)

\* the slot of t at index i, None past the end of the sequence
SlotOrNone(t, i) == IF InBounds(t, i) THEN At(t, i) ELSE NodeNone

\* index 0 is in use, every split node has its two children, and every slot
\* in use below index 0 hangs under a split node
WellFormed(t) ==
    /\ Len(t) > 0
    /\ ~is_none(At(t, 0))
    /\ \A i \in 0..(Len(t) - 1) :
        /\ IsSplitNode(At(t, i)) =>
              /\ InBounds(t, 2 * i + 1) /\ ~is_none(At(t, 2 * i + 1))
              /\ InBounds(t, 2 * i + 2) /\ ~is_none(At(t, 2 * i + 2))
        /\ (i > 0 /\ ~is_none(At(t, i))) => IsSplitNode(At(t, ParentOf(i)))

(* C4: split round trip.  When the two children of the split node at p are  *)
(* leaves, one of them has been emptied by remove_tab and is the only empty *)
(* leaf of the tree, remove_empty_leaf leaves a Leaf at p that holds the    *)
(* surviving side's tabs in their order, and both child slots of p None.    *)
RoundTripReady(t) ==
    /\ Cardinality(EmptyLeaves(t)) = 1
    /\ FirstEmpty(t) > 0
    /\ IsSplitNode(At(t, ParentOf(FirstEmpty(t))))
    /\ is_leaf(At(t, SiblingOf(FirstEmpty(t))))

C4_SplitRoundTrip ==
    [][(IsCollapse(last') /\ RoundTripReady(tree)) =>
          LET n == FirstEmpty(tree)
              p == ParentOf(n)
          IN  /\ ~last'.panic
              /\ is_leaf(At(tree', p))
              /\ At(tree', p).tabs = At(tree, SiblingOf(n)).tabs
              /\ At(tree', p).tabs /= <<>>
              /\ is_none(At(tree', 2 * p + 1))
              /\ is_none(At(tree', 2 * p + 2))]_vars

\* a collapse found the emptied leaf at slot 3, the left child of slot 1, and
\* has left at slot 1 the leaf [1, 2] that was at slot 4, nothing below it
C4_Witness ==
    /\ IsCollapse(last)
    /\ ~last.panic
    /\ last.node = Some(3)
    /\ IsSplitNode(At(tree, 0))
    /\ is_leaf(At(tree, 1)) /\ At(tree, 1).tabs = <<1, 2>>
    /\ is_leaf(At(tree, 2)) /\ At(tree, 2).tabs = <<3>>
    /\ \A i \in 3..(Len(tree) - 1) : is_none(At(tree, i))

(* C5: collapse promotes the sibling subtree intact.  When remove_empty_leaf *)
(* finds an empty leaf with parent p and sibling s in a well-formed tree,    *)
(* every slot of p's subtree holds afterwards what the slot reached from s   *)
(* by the same path held before, and None where that slot does not exist.    *)
C5_SiblingSubtreePromoted ==
    [][(/\ IsCollapse(last')
        /\ EmptyLeaves(tree) /= {}
        /\ FirstEmpty(tree) > 0
        /\ WellFormed(tree)) =>
          LET n == FirstEmpty(tree)
              p == ParentOf(n)
              s == SiblingOf(n)
          IN  /\ ~last'.panic
              /\ \A j \in 0..(Len(tree') - 1) :
                    InSubtree(j, p) =>
                        At(tree', j) = SlotOrNone(tree, Rebase(j, p, s))
              /\ \A j \in 0..(Len(tree) - 1) :
                    (InSubtree(j, s) /\ ~is_none(At(tree, j))) =>
                        \E i \in 0..(Len(tree') - 1) :
                            InSubtree(i, p) /\ Rebase(i, p, s) = j]_vars

\* a collapse found the empty leaf at slot 2 and has promoted the split node
\* at slot 1 to the root, with its two leaves now at slots 1 and 2
C5_Witness ==
    /\ IsCollapse(last)
    /\ ~last.panic
    /\ last.node = Some(2)
    /\ WellFormed(tree)
    /\ IsSplitNode(At(tree, 0))
    /\ is_leaf(At(tree, 1)) /\ is_leaf(At(tree, 2))
    /\ At(tree, 1).tabs \o At(tree, 2).tabs = <<1, 2, 3>>
    /\ \A i \in 3..(Len(tree) - 1) : is_none(At(tree, i))

----------------------------------------------------------------------------
(* C7: remove_empty_leaf, when the first empty leaf it finds is the root,   *)
(* returns normally and leaves the tree unchanged.                          *)
C7_RootCollapseIsNoOp ==
    [][(/\ IsCollapse(last')
        /\ EmptyLeaves(tree) /= {}
        /\ FirstEmpty(tree) = 0)
       => (~last'.panic /\ tree' = tree)]_vars

(* C8: every Leaf with a non-empty tab list has 0 <= active < len(tabs).    *)
C8_ActiveIndexValid ==
    \A i \in 0..(Len(tree) - 1) :
        (is_leaf(At(tree, i)) /\ Len(At(tree, i).tabs) > 0) =>
            (0 <= At(tree, i).active /\ At(tree, i).active < Len(At(tree, i).tabs))

(* C9: a split call has no partial effect: on a Leaf slot it completes, on  *)
(* any other slot it fails and the backing sequence is as it was before.    *)
C9_SplitHasNoPartialEffect ==
    [][(IsSplitCall(last') /\ InBounds(tree, last'.arg.parent)) =>
          IF is_leaf(At(tree, last'.arg.parent))
          THEN ~last'.panic
          ELSE last'.panic /\ tree' = tree]_vars

(* C10: contract violations halt.  split on a slot that is not a Leaf,      *)
(* append_tab on a slot that is not a Leaf and remove_tab on a Leaf with    *)
(* index >= len(tabs) each panic, and no call follows a panic.              *)
C10_ContractViolationsHalt ==
    [][/\ ~last.panic
       /\ (/\ IsSplitCall(last')
           /\ InBounds(tree, last'.arg.parent)
           /\ ~is_leaf(At(tree, last'.arg.parent))) => last'.panic
       /\ (/\ last'.op = "append_tab"
           /\ InBounds(tree, last'.arg.index)
           /\ ~is_leaf(At(tree, last'.arg.index))) => last'.panic
       /\ (/\ last'.op = "remove_tab"
           /\ InBounds(tree, last'.arg.index)
           /\ is_leaf(At(tree, last'.arg.index))
           /\ last'.arg.tab >= Len(At(tree, last'.arg.index).tabs))
          => (last'.panic /\ last'.val = None)]_vars

\* append_tab was called on a split node and the program has halted
C10_Witness ==
    /\ last.op = "append_tab"
    /\ InBounds(tree, last.arg.index)
    /\ IsSplitNode(At(tree, last.arg.index))
    /\ last.panic

----------------------------------------------------------------------------
(* C11: remove_empty_leaf called on a tree in which no Leaf has an empty   *)
(* tab list returns without panicking and leaves every slot and the        *)
(* length of the sequence exactly as they were.                            *)

C11_CollapseWithoutEmptyLeafIsNoOp ==
    [][(IsCollapse(last') /\ EmptyLeaves(tree) = {})
       => /\ ~last'.panic
          /\ Len(tree') = Len(tree)
          /\ \A i \in 0..(Len(tree) - 1) : At(tree', i) = At(tree, i)]_vars

\* a collapse call that found nothing, on a tree that has split nodes and
\* leaves with tabs
C11_Witness ==
    /\ IsCollapse(last)
    /\ ~last.panic
    /\ last.node = None
    /\ IsSplitNode(At(tree, 0))
    /\ \E i \in 0..(Len(tree) - 1) : is_leaf(At(tree, i))

----------------------------------------------------------------------------
(* C12: remove_tab changes only the tab list of the slot it is called on.  *)
(* On a Leaf and a position inside its tab list it returns exactly the tab *)
(* at that position, the remaining tabs keep their order, the slot stays a *)
(* Leaf with every other field as it was, and every other slot and the     *)
(* length are unchanged; on a slot that is not a Leaf it returns None and  *)
(* changes nothing.                                                        *)

IsRemoveTab(c) == c.op = "remove_tab"

\* the sequence s without its element at (0-based) position k
Without(s, k) == SubSeq(s, 1, k) \o SubSeq(s, k + 2, Len(s))

C12_RemoveTabFrame ==
    [][(IsRemoveTab(last') /\ InBounds(tree, last'.arg.index))
       => LET i == last'.arg.index
              k == last'.arg.tab
              node == At(tree, i)
          IN  /\ Len(tree') = Len(tree)
              /\ \A j \in 0..(Len(tree) - 1) :
                    j /= i => At(tree', j) = At(tree, j)
              /\ is_leaf(node) /\ k < Len(node.tabs)
                    => /\ ~last'.panic
                       /\ last'.val = Some(node.tabs[k + 1])
                       /\ At(tree', i) =
                             [node EXCEPT !.tabs = Without(node.tabs, k)]
              /\ ~is_leaf(node)
                    => /\ ~last'.panic
                       /\ last'.val = None
                       /\ At(tree', i) = node]_vars

\* the first of three tabs was removed from a leaf below a split node
C12_Witness ==
    /\ IsRemoveTab(last)
    /\ ~last.panic
    /\ last.arg.index > 0
    /\ last.arg.tab = 0
    /\ last.val = Some(1)
    /\ At(tree, last.arg.index).tabs = <<2, 3>>

----------------------------------------------------------------------------
(* C13: find_active::<T> is first-match in array order.  It returns the    *)
(* viewport and the active tab of the lowest-index Leaf whose active index *)
(* addresses an existing tab whose panel is of type T (slots that are not  *)
(* a Leaf, leaves without tabs, and leaves whose active tab is of another  *)
(* type are passed over, whatever their other tabs are); it returns None   *)
(* exactly when no slot qualifies; and it changes no slot.                 *)

IsFindActive(c) == c.op = "find_active"

\* slot i is a Leaf whose active tab exists and has a panel of type T
Qualifies(t, i, T) ==
    /\ is_leaf(At(t, i))
    /\ At(t, i).active < Len(At(t, i).tabs)
    /\ InnerType(At(t, i).tabs[At(t, i).active + 1]) = T

C13_FindActiveFirstMatch ==
    [][IsFindActive(last')
       => LET q == {i \in 0..(Len(tree) - 1) : Qualifies(tree, i, last'.arg)}
          IN  /\ tree' = tree
              /\ ~last'.panic
              /\ (last'.val = None) <=> (q = {})
              /\ q /= {}
                    => LET i == CHOOSE i \in q : \A j \in q : i <= j
                       IN  last'.val =
                              Some([viewport |-> At(tree, i).viewport,
                                    tab |-> At(tree, i).tabs
                                               [At(tree, i).active + 1]])
      ]_vars

\* the leaf at slot 1 holds a SceneTab that is not its active tab, and the
\* search for a SceneTab went on to the leaf at slot 2
C13_Witness ==
    /\ IsFindActive(last)
    /\ last.arg = "SceneTab"
    /\ Len(tree) > 2
    /\ is_leaf(At(tree, 1))
    /\ At(tree, 1).tabs = <<1, 2>>
    /\ At(tree, 1).active = 1
    /\ is_leaf(At(tree, 2))
    /\ last.val = Some([viewport |-> At(tree, 2).viewport, tab |-> 3])

----------------------------------------------------------------------------
(* C14: level and the depth of a slot.                                     *)

\* the k with 2^k <= n < 2^(k+1), for n >= 1
FloorLog2(n) == CHOOSE k \in 0..n : 2 ^ k <= n /\ n < 2 ^ (k + 1)

IsLevel(c) == c.op = "level"

(* C14 as stated: level(i) is the depth floor(log2(i+1)) of slot i, so     *)
(* that root.level() is 0, level(1) = level(2) = 1 and level(3..6) = 2,    *)
(* and level is non-decreasing in i.                                       *)
C14_LevelIsDepth ==
    IsLevel(last)
       => /\ last.val = FloorLog2(last.arg + 1)
          /\ \A j \in 0..last.arg : level(j) <= last.val

(* C14, amended: level(i) is one more than the depth of slot i, that is    *)
(* floor(log2(i+1)) + 1, the number of slots on the path from index 0 to   *)
(* i: root.level() is 1, level(1) = level(2) = 2 and level(3..6) = 3; and  *)
(* level is non-decreasing in i.                                           *)
C14_LevelIsDepthPlusOne ==
    IsLevel(last)
       => /\ last.val = FloorLog2(last.arg + 1) + 1
          /\ last.arg = root => last.val = 1
          /\ last.arg \in 1..2 => last.val = 2
          /\ last.arg \in 3..6 => last.val = 3
          /\ \A j \in 0..last.arg : level(j) <= last.val

\* level was applied to the last slot of the third row
C14_Witness ==
    /\ IsLevel(last)
    /\ last.arg = 6
    /\ last.val = 3

----------------------------------------------------------------------------
(* C15: addressing.  For every index i, i.left() is 2i+1 and i.right() is  *)
(* 2i+2, the parent of both is Some(i), i.left() is classified by is_left  *)
(* and i.right() by is_right, and root.parent() is None.                   *)

C15_Addressing ==
    /\ last.op = "left"
          => /\ last.val = 2 * last.arg + 1
             /\ parent(last.val) = Some(last.arg)
             /\ is_left(last.val)
    /\ last.op = "right"
          => /\ last.val = 2 * last.arg + 2
             /\ parent(last.val) = Some(last.arg)
             /\ is_right(last.val)
    /\ (last.op = "parent" /\ last.arg = root) => last.val = None
    /\ (last.op = "parent" /\ last.arg /= root)
          => /\ last.val /= None
             /\ last.arg \in {left(last.val[1]), right(last.val[1])}

\* right was applied to an index below the root
C15_Witness ==
    /\ last.op = "right"
    /\ last.arg = 5
    /\ last.val = 12
    /\ parent(12) = Some(5)

----------------------------------------------------------------------------
(* C17: the three depth-relative ranges.  children_at(i, d) is the         *)
(* contiguous run of 2^d slots from (i+1)*2^d - 1, exactly the descendants *)
(* of i at relative depth d; children_left(i, d) followed by               *)
(* children_right(i, d) is children_at(i, d) (so the two are disjoint and  *)
(* adjacent); and for d >= 1 they are exactly the descendants at depth d   *)
(* reached through i.left() and through i.right().                         *)

\* the ancestor of slot j that is d rows above it, -1 if there is none
RECURSIVE AncestorAt(_, _)
AncestorAt(j, d) ==
    IF d = 0 THEN j
    ELSE IF j <= 0 THEN -1
    ELSE AncestorAt(ParentOf(j), d - 1)

DescendantsAt(i, d) == {j \in 0..((i + 2) * 2 ^ d) : AncestorAt(j, d) = i}

ToSet(s) == {s[k] : k \in 1..Len(s)}

Contiguous(s) == \A k \in 1..(Len(s) - 1) : s[k + 1] = s[k] + 1

C17_ChildRangesPartition ==
    LET i == last.arg.index
        d == last.arg.level
        v == last.val
    IN  /\ last.op = "children_at"
              => /\ Len(v) = 2 ^ d
                 /\ v[1] = (i + 1) * 2 ^ d - 1
                 /\ Contiguous(v)
                 /\ ToSet(v) = DescendantsAt(i, d)
                 /\ v = children_left(i, d) \o children_right(i, d)
        /\ last.op = "children_left"
              => /\ Contiguous(v)
                 /\ ToSet(v) \cap ToSet(children_right(i, d)) = {}
                 /\ v \o children_right(i, d) = children_at(i, d)
                 /\ d >= 1 => ToSet(v) = DescendantsAt(left(i), d - 1)
        /\ last.op = "children_right"
              => /\ Contiguous(v)
                 /\ ToSet(v) \cap ToSet(children_left(i, d)) = {}
                 /\ children_left(i, d) \o v = children_at(i, d)
                 /\ d >= 1 => ToSet(v) = DescendantsAt(right(i), d - 1)

\* children_right was applied two rows below slot 2
C17_Witness ==
    /\ last.op = "children_right"
    /\ last.arg = ChildArg(2, 2)
    /\ last.val = <<13, 14>>

----------------------------------------------------------------------------
(* C16: empty leaves and the collapse pass.                                *)

(* C16 as stated: in every state right after a remove_empty_leaf call has  *)
(* returned, no Leaf slot has an empty tab list, also when several leaves  *)
(* were empty before the call or both children of a split node were.       *)
C16_NoEmptyLeafAfterCollapse ==
    (IsCollapse(last) /\ ~last.panic) => EmptyLeaves(tree) = {}

(* C16, amended: remove_empty_leaf removes one empty leaf per call, the    *)
(* first in array order.  A call that returns from a tree with n >= 1      *)
(* empty leaves leaves n - 1 of them; so when at most one leaf was empty   *)
(* before the call, no Leaf slot has an empty tab list after it.           *)
C16_CollapseRemovesOneEmptyLeaf ==
    [][(IsCollapse(last') /\ ~last'.panic)
       => LET before == Cardinality(EmptyLeaves(tree))
              after == Cardinality(EmptyLeaves(tree'))
          IN  /\ before >= 1 => after = before - 1
              /\ before <= 1 => after = 0]_vars

\* a collapse that removed the only empty leaf of a tree and left leaves
\* with tabs behind
C16_Witness ==
    /\ IsCollapse(last)
    /\ ~last.panic
    /\ last.node /= None
    /\ EmptyLeaves(tree) = {}
    /\ \E i \in 0..(Len(tree) - 1) : is_leaf(At(tree, i))

----------------------------------------------------------------------------
(* C18: no stale slots.  In every reachable state index 0 is not None and  *)
(* every other slot that is not None has a Vertical or Horizontal node in  *)
(* its parent slot (so every slot below a Leaf is None).                   *)

C18_NoStaleSlots ==
    /\ ~is_none(At(tree, 0))
    /\ \A i \in 1..(Len(tree) - 1) :
          ~is_none(At(tree, i)) => IsSplitNode(At(tree, ParentOf(i)))

----------------------------------------------------------------------------
(* C19: remove_empty_leaf is local to the split node it collapses.  When   *)
(* the call collapses the empty leaf whose parent is p, every slot that is *)
(* neither p nor a descendant of p holds afterwards exactly what it held   *)
(* before, and the length of the sequence is unchanged.                    *)

C19_CollapseIsLocal ==
    [][(IsCollapse(last') /\ ~last'.panic /\ last'.node /= None)
       => LET p == ParentOf(last'.node[1])
          IN  /\ Len(tree') = Len(tree)
              /\ \A j \in 0..(Len(tree) - 1) :
                    ~InSubtree(j, p) => At(tree', j) = At(tree, j)]_vars

\* the empty leaf at slot 5 was collapsed into its parent, slot 2, next to
\* a leaf with tabs at slot 1
C19_Witness ==
    /\ IsCollapse(last)
    /\ ~last.panic
    /\ last.node = Some(5)
    /\ IsSplitNode(At(tree, 0))
    /\ is_leaf(At(tree, 1)) /\ Len(At(tree, 1).tabs) > 0
    /\ ~is_none(At(tree, 2))

----------------------------------------------------------------------------
(* C20: remove_empty_leaf terminates.  Whatever the length of the sequence *)
(* and wherever the empty leaf is, once the promotion loop is entered it   *)
(* reaches a source index at or past the end of the sequence and the call  *)
(* returns, and it returns without a panic, that is without having indexed *)
(* the sequence outside its bounds.                                        *)

C20_CollapseTerminates ==
    InLoop ~> (IsCollapse(last) /\ ~last.panic)

\* the call returned after promoting two levels into the place of an empty
\* leaf at slot 4, a right child
C20_Witness ==
    /\ IsCollapse(last)
    /\ ~last.panic
    /\ last.node = Some(4)
    /\ last.level = 2
    /\ \E i \in 3..(Len(tree) - 1) : ~is_none(At(tree, i))

====
